---- MODULE Spec2Model ----
(***************************************************************************)
(* Free-slot suggestion (suggest_alternative_slots) of the meeting         *)
(* scheduling agents, in its three copies:                                 *)
(*   "LogicFor1_1"      src/LogicFor1.1.py                                 *)
(*   "ScheduleMeeting"  src/src/ScheduleMeeting.py                         *)
(*   "MeetingScheduler" src/src/meeting_agent_project/app/core.py          *)
(* Instants are whole minutes on one UTC time line.  The difference        *)
(* (b - a).total_seconds() / 60 of two whole-minute instants is the        *)
(* integer b - a, so the comparisons with duration_minutes are exact.      *)
(* The calendar is the event store behind service.events(): the scan reads *)
(* it through one list query (timeMin, timeMax, singleEvents,              *)
(* orderBy='startTime') and never writes it.                               *)
(***************************************************************************)
EXTENDS Integers, Sequences, FiniteSets, TLC

\* Bounds of the generic inputs: the last instant, the size of a calendar.
MaxTick == 3
MaxEvents == 2

Variants == {"LogicFor1_1", "ScheduleMeeting", "MeetingScheduler"}

Interval(s, e) == [start |-> s, end |-> e]

Length(iv) == iv.end - iv.start

Max(a, b) == IF a >= b THEN a ELSE b

Min(a, b) == IF a <= b THEN a ELSE b

----------------------------------------------------------------------------
(* Inputs *)

Instants == 0..MaxTick

\* Calendar events: timed events with start <= end.
GenericEvents == {iv \in {Interval(s, e) : s \in Instants, e \in Instants} : iv.start <= iv.end}

RECURSIVE SubsetsUpTo(_, _)
SubsetsUpTo(S, n) ==
  IF n = 0 THEN {{}}
  ELSE LET smaller == SubsetsUpTo(S, n - 1)
       IN smaller \cup {c \cup {x} : c \in smaller, x \in S}

\* The scenarios of spec section 8, in minutes after 09:00.
ScenarioConcrete == {Interval(0, 30), Interval(180, 240)}

ScenarioOverlap == {Interval(0, 60), Interval(30, 90), Interval(60, 120)}

ScenarioTouch == {Interval(0, 60), Interval(60, 120)}

Calendars == SubsetsUpTo(GenericEvents, MaxEvents) \cup {ScenarioConcrete, ScenarioOverlap, ScenarioTouch}

\* Search windows with start <= end, and the windows of the scenarios.
ScenarioWindows == {Interval(0, 480), Interval(0, 180), Interval(0, 120)}

\* duration_minutes, a positive integer.
Durations == {1, 2, 30, 60}

\* The (window, duration) pairs of the calls.
Requests ==
  (GenericEvents \X {1, 2}) \cup (ScenarioWindows \X Durations)

----------------------------------------------------------------------------
(* The calendar query *)

IsSortedByStart(seq) == \A i \in 1..(Len(seq) - 1) : seq[i].start <= seq[i + 1].start

RECURSIVE Orderings(_)
Orderings(S) ==
  IF S = {} THEN {<<>>}
  ELSE UNION {{<<x>> \o rest : rest \in Orderings(S \ {x})} : x \in S}

\* The query without its time bounds.
ListEventsUnfiltered(cal, timeMin, timeMax) ==
  {seq \in Orderings(cal) : IsSortedByStart(seq)}

\* The query without orderBy.
ListEventsUnordered(cal, timeMin, timeMax) ==
  Orderings({ev \in cal : ev.end > timeMin /\ ev.start < timeMax})

\* The query without its timeMax bound.
ListEventsNoTimeMax(cal, timeMin, timeMax) ==
  {seq \in Orderings({ev \in cal : ev.end > timeMin}) : IsSortedByStart(seq)}

\* events().list(timeMin, timeMax, singleEvents=True, orderBy='startTime'):
\* the events that end after timeMin and start before timeMax, by ascending
\* start; the order of events with equal start is not determined.
ListEvents(cal, timeMin, timeMax) ==
  {seq \in Orderings({ev \in cal : ev.end > timeMin /\ ev.start < timeMax}) : IsSortedByStart(seq)}

----------------------------------------------------------------------------
(* The scan *)

\* (b - a).total_seconds() / 60
GapMinutes(a, b) == b - a

\* The comparison made strict.
FitsDurationStrict(gap_minutes, duration) == gap_minutes > duration

\* The comparison without the duration.
FitsDurationIgnored(gap_minutes, duration) == gap_minutes >= 0

\* gap_minutes >= duration_minutes
FitsDuration(gap_minutes, duration) == gap_minutes >= duration

\* The cursor set to the event's end in every copy.
AdvancePreviousEndNoMax(v, prev, current_end) == current_end

\* The cursor after an event: LogicFor1.1 assigns the event's end, the two
\* classes take max(previous_end, current_end).
AdvancePreviousEnd(v, prev, current_end) ==
  IF v = "LogicFor1_1" THEN current_end ELSE Max(prev, current_end)

\* One iteration of `for event in events`.
ScanEvent(v, st, event, duration) ==
  [previous_end |-> AdvancePreviousEnd(v, st.previous_end, event.end),
   suggestions |->
     IF FitsDuration(GapMinutes(st.previous_end, event.start), duration)
     THEN Append(st.suggestions, Interval(st.previous_end, event.start))
     ELSE st.suggestions]

\* The trailing gap returned whenever it is not empty.
FinalGapUnchecked(st, window_end, duration) ==
  IF st.previous_end < window_end
  THEN Append(st.suggestions, Interval(st.previous_end, window_end))
  ELSE st.suggestions

\* The check after the loop, between the cursor and the end of the window.
FinalGap(st, window_end, duration) ==
  IF FitsDuration(GapMinutes(st.previous_end, window_end), duration)
  THEN Append(st.suggestions, Interval(st.previous_end, window_end))
  ELSE st.suggestions

\* LogicFor1.1 only: `if not events`, the whole window or nothing.
EmptyCalendar(window_start, window_end, duration) ==
  IF FitsDuration(GapMinutes(window_start, window_end), duration)
  THEN <<Interval(window_start, window_end)>>
  ELSE <<>>

RECURSIVE ScanEvents(_, _, _, _)
ScanEvents(v, st, evs, duration) ==
  IF evs = <<>> THEN st
  ELSE ScanEvents(v, ScanEvent(v, st, Head(evs), duration), Tail(evs), duration)

\* The list a call returns (LogicFor1.1: prints) for the fetched events.
suggest_alternative_slots(v, window_start, window_end, evs, duration) ==
  IF v = "LogicFor1_1" /\ evs = <<>>
  THEN EmptyCalendar(window_start, window_end, duration)
  ELSE FinalGap(ScanEvents(v, [previous_end |-> window_start, suggestions |-> <<>>], evs, duration),
                window_end, duration)

----------------------------------------------------------------------------
(* State *)

\* calendar      the events of the primary calendar
\* pc            "idle", "scan" (in the loop of a call), "done" (the call returned)
\* events        the list the query of the running call returned
\* idx           the position in events of the next event of the loop
VARIABLES calendar, pc, variant, window, duration_minutes, events, idx, previous_end, suggestions

\* log           the records the running call reported as unparseable (print, logging.warning)
VARIABLES log

\* ContractGenerator.extract_placeholders:
\* document      the paragraphs of the template, each the sequence of its characters
\* para          the position of the loop over document.paragraphs
\* placeholders  the list being built, and returned
\* extract_pc    "idle", "loop" or "returned"
VARIABLES document, para, placeholders, extract_pc

\* DocumentIntelligencePipeline.send_email:
\* server        what each call on the SMTP server does in this run: "ok" or "raises"
\* mail_pc       "idle", the call of the try block that is next, or "returned"
\* result        the string returned, as the pieces of its f-string
VARIABLES server, mail_pc, result

contractVars == <<document, para, placeholders, extract_pc>>

mailVars == <<server, mail_pc, result>>

\* parse_meeting_request:
\* parser        the copy that runs: "MeetingScheduler", "api" or "ScheduleMeeting"
\* user_input    what the request text and the prompts say
\* details       the dictionary returned, or None
\* parse_pc      "idle" or "returned"
VARIABLES parser, user_input, details, parse_pc

parseVars == <<parser, user_input, details, parse_pc>>

\* A scheduling workflow (main of LogicFor1.1, run of the two agents,
\* the create_meeting branch of smart_agent):
\* workflow         which workflow runs
\* run_pc           the position in it
\* meeting_details  what parse_meeting_request returned
\* faults           whether the list query and the insert of this run raise
\* conflict         what check_conflicts returned
\* created          add_event_to_calendar returned an event
\* ops              the calendar operations called so far, in order
\* response         the message the run ends with
VARIABLES workflow, run_pc, meeting_details, faults, conflict, created, ops, response

workflowVars == <<workflow, run_pc, meeting_details, faults, conflict, created, ops, response>>

\* The intent router of testGraph.py:
\* classification   response.text.strip().lower()
\* router_pc        the node about to run
\* visited          the nodes that have run, in order
VARIABLES classification, router_pc, visited

routerVars == <<classification, router_pc, visited>>

\* The agent/tools graph of main_graph.py:
\* graph            "FullGraph" or "SmartGraph"
\* node             the node about to run, "route" for the conditional edge
\* last_message     state["messages"][-1] as the next node receives it
\* intent_response  what the classifier answered in the last agent step
\* tool_runs        how many times the tools node has run
\* supersteps       how many nodes have run
VARIABLES graph, node, last_message, intent_response, tool_runs, supersteps

graphVars == <<graph, node, last_message, intent_response, tool_runs, supersteps>>

\* The state of the operations other than the scan, the extraction and the mail.
restVars == <<parseVars, workflowVars, routerVars, graphVars>>

\* The state outside a call of the scan.
others == <<contractVars, mailVars, restVars>>

scanVars == <<calendar, pc, variant, window, duration_minutes, events, idx, previous_end, suggestions, log>>

\* No extraction is running.
ContractIdle ==
  /\ document = <<>>
  /\ para = 1
  /\ placeholders = <<>>
  /\ extract_pc = "idle"

\* The calls of the try block of send_email, in order.
SmtpCalls == <<"SMTP", "starttls", "login", "sendmail", "quit">>

SmtpCallSet == {SmtpCalls[i] : i \in 1..Len(SmtpCalls)}

\* No mail is being sent.
MailIdle ==
  /\ server = [c \in SmtpCallSet |-> "ok"]
  /\ mail_pc = "idle"
  /\ result = <<>>

\* return None
NoDetails == [none |-> TRUE, start |-> 0, end |-> 0]

\* No request is being parsed.
ParseIdle ==
  /\ parser = "MeetingScheduler"
  /\ user_input = <<>>
  /\ details = NoDetails
  /\ parse_pc = "idle"

\* The parsed request of a workflow: None, or start, end and whether the
\* participants list is non-empty.
NoMeeting == [none |-> TRUE, start |-> 0, end |-> 0, participants |-> FALSE]

\* No workflow is running.
WorkflowIdle ==
  /\ workflow = "LogicFor1_1.main"
  /\ run_pc = "idle"
  /\ meeting_details = NoMeeting
  /\ faults = [list |-> "ok", insert |-> "ok"]
  /\ conflict = FALSE
  /\ created = FALSE
  /\ ops = <<>>
  /\ response = ""

\* The router is not running.
RouterIdle ==
  /\ classification = <<>>
  /\ router_pc = "idle"
  /\ visited = <<>>

\* HumanMessage(content=...), AIMessage(content=..., tool_calls=[...]) and the
\* ToolMessage of the tools node, by kind and by the tool the message calls.
NoToolCall == "none"

\* The graph is not running.
GraphIdle ==
  /\ graph = "FullGraph"
  /\ node = "idle"
  /\ last_message = [kind |-> "human", tool_call |-> NoToolCall]
  /\ intent_response = <<>>
  /\ tool_runs = 0
  /\ supersteps = 0

RestIdle == ParseIdle /\ WorkflowIdle /\ RouterIdle /\ GraphIdle

vars == <<calendar, pc, variant, window, duration_minutes, events, idx, previous_end, suggestions, log, others>>

Init ==
  /\ calendar \in Calendars
  /\ pc = "idle"
  /\ variant = "LogicFor1_1"
  /\ window = Interval(0, 0)
  /\ duration_minutes = 1
  /\ events = <<>>
  /\ idx = 1
  /\ previous_end = 0
  /\ suggestions = <<>>
  /\ log = <<>>
  /\ ContractIdle
  /\ MailIdle
  /\ RestIdle

\* Entry of suggest_alternative_slots up to the loop: the window is parsed,
\* the events are fetched, the cursor starts at the window's start.
Call(v, w, d) ==
  /\ <<w, d>> \in Requests
  /\ pc = "idle"
  /\ variant' = v
  /\ window' = w
  /\ duration_minutes' = d
  /\ events' \in ListEvents(calendar, w.start, w.end)
  /\ idx' = 1
  /\ previous_end' = w.start
  /\ suggestions' = <<>>
  /\ log' = <<>>
  /\ pc' = "scan"
  /\ UNCHANGED calendar
  /\ UNCHANGED others

\* LogicFor1.1, `if not events`.
Empty ==
  /\ pc = "scan"
  /\ variant = "LogicFor1_1"
  /\ events = <<>>
  /\ suggestions' = EmptyCalendar(window.start, window.end, duration_minutes)
  /\ pc' = "done"
  /\ UNCHANGED <<calendar, variant, window, duration_minutes, events, idx, previous_end, log>>
  /\ UNCHANGED others

\* One iteration of the loop.
Step ==
  /\ pc = "scan"
  /\ idx <= Len(events)
  /\ LET st == ScanEvent(variant, [previous_end |-> previous_end, suggestions |-> suggestions],
                         events[idx], duration_minutes)
     IN /\ previous_end' = st.previous_end
        /\ suggestions' = st.suggestions
  /\ idx' = idx + 1
  /\ UNCHANGED <<calendar, pc, variant, window, duration_minutes, events, log>>
  /\ UNCHANGED others

\* The check after the loop, with the slots found written to the calendar as
\* events.
FinalBooksSlots ==
  /\ pc = "scan"
  /\ idx > Len(events)
  /\ ~(variant = "LogicFor1_1" /\ events = <<>>)
  /\ suggestions' = FinalGap([previous_end |-> previous_end, suggestions |-> suggestions],
                             window.end, duration_minutes)
  /\ calendar' = calendar \cup {suggestions'[i] : i \in 1..Len(suggestions')}
  /\ pc' = "done"
  /\ UNCHANGED <<variant, window, duration_minutes, events, idx, previous_end, log>>
  /\ UNCHANGED others

\* The check after the loop, and the return.
Final ==
  /\ pc = "scan"
  /\ idx > Len(events)
  /\ ~(variant = "LogicFor1_1" /\ events = <<>>)
  /\ suggestions' = FinalGap([previous_end |-> previous_end, suggestions |-> suggestions],
                             window.end, duration_minutes)
  /\ pc' = "done"
  /\ UNCHANGED <<calendar, variant, window, duration_minutes, events, idx, previous_end, log>>
  /\ UNCHANGED others

\* The call is over and its locals are gone: nothing but the calendar is
\* left for the next call.
Return ==
  /\ pc = "done"
  /\ pc' = "idle"
  /\ variant' = "LogicFor1_1"
  /\ window' = Interval(0, 0)
  /\ duration_minutes' = 1
  /\ events' = <<>>
  /\ idx' = 1
  /\ previous_end' = 0
  /\ suggestions' = <<>>
  /\ log' = <<>>
  /\ UNCHANGED calendar
  /\ UNCHANGED others

Next ==
  \/ \E v \in Variants, w \in GenericEvents \cup ScenarioWindows, d \in Durations : Call(v, w, d)
  \/ Empty
  \/ Step
  \/ Final
  \/ Return

Spec == Init /\ [][Next]_vars

----------------------------------------------------------------------------
(* Properties of a returned list *)

\* A call with the inputs of spec section 6 (a positive duration, a window
\* with start <= end) has returned.
Returned == pc = "done" /\ duration_minutes > 0 /\ window.start <= window.end

Slots == {suggestions[i] : i \in 1..Len(suggestions)}

Intersects(a, b) == a.start < b.end /\ b.start < a.end

\* The busy intervals of the calendar with b < c.
Busy == {b \in calendar : b.start < b.end}

\* C1: no returned free slot intersects a busy interval of the input
\* (for each slot (s, e) and busy (b, c) with b < c, not (s < c and b < e)).
C1_NoSlotIntersectsBusy ==
  Returned => \A slot \in Slots : \A b \in Busy : ~Intersects(slot, b)

C3_SlotsLongEnough ==
  Returned => \A slot \in Slots : slot.start < slot.end /\ slot.end - slot.start >= duration_minutes

C3_Witness ==
  /\ Returned
  /\ Busy # {}
  /\ Len(suggestions) = 2
  /\ Length(suggestions[1]) = duration_minutes

----------------------------------------------------------------------------
(* Reference notions of spec sections 4.2 and 8 *)

IsChronological(seq) == \A i \in 1..(Len(seq) - 1) : seq[i].end <= seq[i + 1].start

\* The list seq holds exactly the intervals of the set S, in chronological order.
ListsExactly(seq, S) ==
  /\ {seq[i] : i \in 1..Len(seq)} = S
  /\ Len(seq) = Cardinality(S)
  /\ IsChronological(seq)

\* The instants at which a maximal free interval of the window can begin or end.
EndPoints ==
  {window.start, window.end} \cup
  {p \in {b.start : b \in calendar} \cup {b.end : b \in calendar} : window.start <= p /\ p <= window.end}

\* A busy instant (an event with start = end) inside an interval.
Cuts(b, iv) == b.start = b.end /\ iv.start < b.start /\ b.start < iv.end

\* iv is part of the window and free: it meets no busy interval, and no
\* busy instant lies inside it.
FreeInWindow(iv) ==
  /\ window.start <= iv.start
  /\ iv.start < iv.end
  /\ iv.end <= window.end
  /\ \A b \in calendar : ~Intersects(iv, b) /\ ~Cuts(b, iv)

\* The maximal intervals of (window minus the union of the busy intervals).
MaximalGaps ==
  LET candidates == {iv \in {Interval(s, e) : s \in EndPoints, e \in EndPoints} : FreeInWindow(iv)}
  IN {g \in candidates : \A h \in candidates : (h.start <= g.start /\ g.end <= h.end) => h = g}

\* Spec 4.2 step 3: the merge of a list sorted by start into disjoint blocks.
RECURSIVE MergeSorted(_, _)
MergeSorted(blocks, evs) ==
  IF evs = <<>> THEN blocks
  ELSE LET ev == Head(evs)
           n == Len(blocks)
       IN IF n > 0 /\ ev.start <= blocks[n].end
          THEN MergeSorted([blocks EXCEPT ![n].end = Max(blocks[n].end, ev.end)], Tail(evs))
          ELSE MergeSorted(Append(blocks, ev), Tail(evs))

CoverageBlocks(S) == MergeSorted(<<>>, CHOOSE seq \in Orderings(S) : IsSortedByStart(seq))

\* The coverage blocks of the calendar cut to the window, those with an
\* interior left.
ClampedBlocks ==
  LET blocks == CoverageBlocks(calendar)
      cut == {Interval(Max(blocks[i].start, window.start), Min(blocks[i].end, window.end)) : i \in 1..Len(blocks)}
  IN {b \in cut : b.start < b.end}

\* What a second call on the same window returns when the calendar holds
\* the intervals of S as its events.
ScansOf(S) ==
  {suggest_alternative_slots(variant, window.start, window.end, order, duration_minutes) :
     order \in ListEvents(S, window.start, window.end)}

----------------------------------------------------------------------------
(* Claims C4 to C10 *)

\* C4: the output is exactly the list of the maximal intervals of (window
\* minus the union of the busy intervals) that are at least min_duration
\* long; window [09:00, 17:00], busy [(09:00,09:30),(12:00,13:00)] and 60
\* minutes give exactly [(09:30,12:00),(13:00,17:00)].
C4_CompleteAndMaximal ==
  Returned =>
    /\ ListsExactly(suggestions, {g \in MaximalGaps : Length(g) >= duration_minutes})
    /\ (calendar = ScenarioConcrete /\ window = Interval(0, 480) /\ duration_minutes = 60)
         => suggestions = <<Interval(30, 180), Interval(240, 480)>>

\* C5: the order in which the busy events reach the scan does not change
\* the list of free slots returned.
C5_OrderInvariant ==
  Returned => ScansOf(calendar) = {suggestions}

\* C6: the scan returns for a busy list what it returns for the disjoint
\* coverage blocks obtained by merging that list; busy
\* [(9:00,10:00),(9:30,10:30),(10:00,11:00)] in [9:00,12:00] with 30 minutes
\* gives exactly [(11:00,12:00)].
C6_SameAsMerged ==
  Returned =>
    /\ LET blocks == CoverageBlocks(calendar)
       IN ScansOf({blocks[i] : i \in 1..Len(blocks)}) = {suggestions}
    /\ (calendar = ScenarioOverlap /\ window = Interval(0, 180) /\ duration_minutes = 30)
         => suggestions = <<Interval(120, 180)>>

C8_FullCoverage ==
  (Returned /\ \E b \in calendar : b.start <= window.start /\ b.end >= window.end) =>
    suggestions = <<>>

\* C9: two busy intervals that touch (A.end = B.start) are contiguous, no
\* zero-length slot is returned between them; busy [(9:00,10:00),(10:00,11:00)]
\* in [9:00,11:00] gives no slot for any min_duration > 0.
C9_TouchingIntervals ==
  Returned =>
    /\ \A a \in calendar, b \in calendar :
         a.end = b.start => \A slot \in Slots : ~(slot.start = a.end /\ slot.end = b.start)
    /\ (calendar = ScenarioTouch /\ window = Interval(0, 120)) => suggestions = <<>>

C9_Witness ==
  /\ Returned
  /\ calendar = ScenarioTouch
  /\ window = Interval(0, 120)
  /\ variant = "LogicFor1_1"
  /\ duration_minutes = 1
  /\ suggestions = <<>>

\* The two copies that return their list (LogicFor1.1 prints it and returns None).
ReturnsList == variant \in {"ScheduleMeeting", "MeetingScheduler"}

\* C10 as stated: the scan of the window with the returned free slots as the
\* busy list returns exactly the coverage blocks of the original busy list,
\* clamped to the window.
C10_RoundTrip ==
  (Returned /\ ReturnsList) =>
    \A second \in ScansOf(Slots) : ListsExactly(second, ClampedBlocks)

\* C10 amended: the round trip holds when nothing falls under the duration
\* threshold, that is when every maximal free gap and every clamped
\* coverage block is at least min_duration long.
NothingUnderThreshold ==
  /\ \A g \in MaximalGaps : Length(g) >= duration_minutes
  /\ \A b \in ClampedBlocks : Length(b) >= duration_minutes

C10_RoundTripAboveThreshold ==
  (Returned /\ ReturnsList /\ NothingUnderThreshold) =>
    \A second \in ScansOf(Slots) : ListsExactly(second, ClampedBlocks)

C10_Witness ==
  /\ Returned
  /\ ReturnsList
  /\ NothingUnderThreshold
  /\ suggestions # <<>>
  /\ Cardinality(Busy) = 2
  /\ \A b \in Busy : Intersects(b, window)
  /\ Cardinality(ClampedBlocks) = 1

\* ---------------------------------------------------------------------------
\* Calls whose arguments nothing checks.  The endpoint hands
\* request.duration_minutes to the scan as it arrives, and LogicFor1.1 parses
\* event_start and event_end without comparing them; the two classes build
\* their window from one date, so that only LogicFor1.1 can be called with a
\* window whose start is after its end.
\* ---------------------------------------------------------------------------

AnyDurations == {-1, 0, 1, 2}

AnyWindows == {Interval(s, e) : s \in Instants, e \in Instants}

\* Entry of suggest_alternative_slots with any integer duration and, in
\* LogicFor1.1, any pair of instants; the list query answers.
CallUnchecked(v, w, d) ==
  /\ pc = "idle"
  /\ w \in AnyWindows
  /\ d \in AnyDurations
  /\ w.start > w.end => v = "LogicFor1_1"
  /\ variant' = v
  /\ window' = w
  /\ duration_minutes' = d
  /\ events' \in ListEvents(calendar, w.start, w.end)
  /\ idx' = 1
  /\ previous_end' = w.start
  /\ suggestions' = <<>>
  /\ log' = <<>>
  /\ pc' = "scan"
  /\ UNCHANGED calendar
  /\ UNCHANGED others

\* LogicFor1.1 runs the list query outside any try: when the service refuses
\* a range whose timeMin is after its timeMax, the exception leaves the call.
\* Whether the service refuses or answers is not decided by the program.
QueryRefused(w, d) ==
  /\ pc = "idle"
  /\ w \in AnyWindows
  /\ d \in AnyDurations
  /\ w.start > w.end
  /\ variant' = "LogicFor1_1"
  /\ window' = w
  /\ duration_minutes' = d
  /\ pc' = "raised"
  /\ UNCHANGED <<calendar, events, idx, previous_end, suggestions, log>>
  /\ UNCHANGED others

NextUnchecked ==
  \/ \E v \in Variants, w \in AnyWindows, d \in AnyDurations : CallUnchecked(v, w, d)
  \/ \E w \in AnyWindows, d \in AnyDurations : QueryRefused(w, d)
  \/ Empty
  \/ Step
  \/ Final
  \/ Return

SpecUnchecked == Init /\ [][NextUnchecked]_vars

\* C11: a call whose duration_minutes is zero or negative is rejected: it
\* does not return, and it produces no slot at all (so no zero-length and no
\* inverted one).  The window is a proper one, start <= end.
C11_NonPositiveDurationRejected ==
  (duration_minutes <= 0 /\ window.start <= window.end)
    => (pc # "done" /\ suggestions = <<>>)

\* C12: a call whose window_start is after its window_end is rejected as an
\* error: it never returns a slot list, empty or not.  The duration is a
\* proper one, positive.
C12_InvertedWindowRejected ==
  (window.start > window.end /\ duration_minutes > 0) => pc # "done"

\* ---------------------------------------------------------------------------
\* Records as the calendar service returns them.  A record is timed (a pair
\* of dateTime strings), all-day (a pair of date strings) or malformed (its
\* dateTime strings are not ISO timestamps).  start and end are the instants
\* the service itself files the record under, which the list query filters
\* and orders by; date is what an all-day record shows to the program.
\* ---------------------------------------------------------------------------

\* The length of a calendar day, in instants.
DayTicks == 2

Dates == {0, 1}

\* date + "T00:00:00+00:00"
DayStart(date) == date * DayTicks

\* date + "T23:59:59+00:00": the last instant of the day.
DayEnd(date) == DayStart(date) + DayTicks - 1

\* How far the calendar's own timezone is ahead of UTC.
RefOffsets == {0, 1}

Record(kind, s, e, date) == [kind |-> kind, start |-> s, end |-> e, date |-> date]

TimedRecords == {Record("timed", iv.start, iv.end, 0) : iv \in GenericEvents}

MalformedRecords == {Record("malformed", t, t, 0) : t \in Instants}

AllDayRecords ==
  {Record("allday", DayStart(date) - off, DayEnd(date) - off, date) : date \in Dates, off \in RefOffsets}

RecordCalendars == SubsetsUpTo(TimedRecords \cup MalformedRecords \cup AllDayRecords, MaxEvents)

\* What a copy makes of one record: whether its two timestamps parse, and
\* the interval they give.  LogicFor1.1 and ScheduleMeeting read dateTime
\* or else build the timestamps of an all-day record from its dates, as UTC;
\* MeetingScheduler reads dateTime only, and fromisoformat(None) raises.
ParseEventTimes(v, rec) ==
  CASE rec.kind = "timed" ->
         [ok |-> TRUE, start |-> rec.start, end |-> rec.end]
    [] rec.kind = "allday" /\ v # "MeetingScheduler" ->
         [ok |-> TRUE, start |-> DayStart(rec.date), end |-> DayEnd(rec.date)]
    [] OTHER ->
         [ok |-> FALSE, start |-> 0, end |-> 0]

\* The report of a record that does not parse: one line on the console
\* (ScheduleMeeting) or in the log (MeetingScheduler).
ReportNothing(lg, rec) == lg

Report(lg, rec) == Append(lg, rec)

InitRecords ==
  /\ calendar \in RecordCalendars
  /\ pc = "idle"
  /\ variant = "LogicFor1_1"
  /\ window = Interval(0, 0)
  /\ duration_minutes = 1
  /\ events = <<>>
  /\ idx = 1
  /\ previous_end = 0
  /\ suggestions = <<>>
  /\ log = <<>>
  /\ ContractIdle
  /\ MailIdle
  /\ RestIdle

\* One iteration of the loop on a record that parses.
StepRecord ==
  /\ pc = "scan"
  /\ idx <= Len(events)
  /\ ParseEventTimes(variant, events[idx]).ok
  /\ LET times == ParseEventTimes(variant, events[idx])
         st == ScanEvent(variant, [previous_end |-> previous_end, suggestions |-> suggestions],
                         Interval(times.start, times.end), duration_minutes)
     IN /\ previous_end' = st.previous_end
        /\ suggestions' = st.suggestions
  /\ idx' = idx + 1
  /\ UNCHANGED <<calendar, pc, variant, window, duration_minutes, events, log>>
  /\ UNCHANGED others

\* The two classes: `except Exception: ... continue`.
SkipRecord ==
  /\ pc = "scan"
  /\ idx <= Len(events)
  /\ variant # "LogicFor1_1"
  /\ ~ParseEventTimes(variant, events[idx]).ok
  /\ log' = Report(log, events[idx])
  /\ idx' = idx + 1
  /\ UNCHANGED <<calendar, pc, variant, window, duration_minutes, events, previous_end, suggestions>>
  /\ UNCHANGED others

\* LogicFor1.1: `except ValueError` parses the same string again with "Z"
\* replaced, outside any try; the second failure leaves the call.
RaiseRecord ==
  /\ pc = "scan"
  /\ idx <= Len(events)
  /\ variant = "LogicFor1_1"
  /\ ~ParseEventTimes(variant, events[idx]).ok
  /\ pc' = "raised"
  /\ UNCHANGED <<calendar, variant, window, duration_minutes, events, idx, previous_end, suggestions, log>>
  /\ UNCHANGED others

NextRecords ==
  \/ \E v \in Variants, w \in GenericEvents, d \in Durations : Call(v, w, d)
  \/ Empty
  \/ StepRecord
  \/ SkipRecord
  \/ RaiseRecord
  \/ Final
  \/ Return

SpecRecords == InitRecords /\ [][NextRecords]_vars

\* The positions of the fetched records that the running copy cannot parse.
Unparseable == {i \in 1..Len(events) : ~ParseEventTimes(variant, events[i]).ok}

\* The intervals of the records of recs that copy v can parse, in order.
RECURSIVE ParsedEvents(_, _)
ParsedEvents(v, recs) ==
  IF recs = <<>> THEN <<>>
  ELSE LET times == ParseEventTimes(v, Head(recs))
           rest == ParsedEvents(v, Tail(recs))
       IN IF times.ok THEN <<Interval(times.start, times.end)>> \o rest ELSE rest

\* C13: a record that cannot be parsed does not abort the call: that record
\* alone is skipped, and the call returns the slots of the scan over all the
\* other records.
C13_PartialFailureTolerated ==
  /\ pc # "raised"
  /\ Returned =>
       suggestions = suggest_alternative_slots(variant, window.start, window.end,
                                               ParsedEvents(variant, events), duration_minutes)

\* What a call returns next to its slots: nothing, `return suggestions`.
Diagnostics == <<>>

\* C14: the call returns, with its result, one diagnostic for each record it
\* skipped because it could not be parsed.
C14_DiagnosticsReturned ==
  pc = "done" => Len(Diagnostics) = Cardinality(Unparseable)

IsUnparseable(rec) == ~ParseEventTimes(variant, rec).ok

\* C14, as the two classes behave: every record that cannot be parsed is
\* reported once on the console or in the log, in the order of the scan, and
\* with none returned: the number of reports is the number of skipped records.
C14_SkipsAreReported ==
  (pc = "done" /\ ReturnsList) =>
    /\ Diagnostics = <<>>
    /\ log = SelectSeq(events, IsUnparseable)
    /\ Len(log) = Cardinality(Unparseable)

C14_Witness ==
  /\ pc = "done"
  /\ variant = "ScheduleMeeting"
  /\ Len(log) = 2
  /\ suggestions # <<>>

\* C15: an all-day record for the date D counts as busy from D 00:00:00 to
\* D 23:59:59 in the calendar's timezone: no returned slot intersects it.
C15_AllDayIsBusy ==
  Returned =>
    \A rec \in calendar : rec.kind = "allday" =>
      \A slot \in Slots : ~Intersects(slot, Interval(rec.start, rec.end))

\* ---------------------------------------------------------------------------
\* Properties of the scan over well-formed timed events (Spec).
\* ---------------------------------------------------------------------------

\* A busy interval that lies wholly outside the window.
OutsideWindow(b) == b.end <= window.start \/ b.start >= window.end

C18_ReadOnlyAndStateless ==
  /\ [][calendar' = calendar]_vars
  /\ [](pc = "idle" => (events = <<>> /\ suggestions = <<>> /\ log = <<>>))
  /\ []((Returned /\ ReturnsList) =>
          \A again \in ScansOf(calendar) : again = suggestions)

C18_Witness ==
  /\ Returned
  /\ ReturnsList
  /\ suggestions # <<>>
  /\ Cardinality(ListEvents(calendar, window.start, window.end)) = 2

\* ---------------------------------------------------------------------------
\* ContractGenerator.extract_placeholders.  A paragraph is the sequence of the
\* characters of para.text; a template is made of plain text and of
\* placeholders, a name between square brackets.
\* ---------------------------------------------------------------------------

\* The most pieces (a stretch of plain text, or a placeholder) a paragraph has.
MaxItems == 3

\* A letter of plain text, the placeholder [D] and the placeholder [N].
Items == {<<"x">>, <<"[", "D", "]">>, <<"[", "N", "]">>}

RECURSIVE Texts(_)
Texts(n) ==
  IF n = 0 THEN {<<>>}
  ELSE LET shorter == Texts(n - 1)
       IN shorter \cup {text \o item : text \in shorter, item \in Items}

Paragraphs == Texts(MaxItems)

\* Templates of one or two paragraphs.
Documents == {<<p>> : p \in Paragraphs} \cup {<<p, q>> : p \in Paragraphs, q \in Paragraphs}

\* ch in text
Contains(text, ch) == \E i \in 1..Len(text) : text[i] = ch

\* text.find(ch), for a character the text contains: its first position.
Find(text, ch) ==
  CHOOSE i \in 1..Len(text) : text[i] = ch /\ \A j \in 1..(i - 1) : text[j] # ch

\* para.text[para.text.find("[") + 1:para.text.find("]")]
Field(text) == SubSeq(text, Find(text, "[") + 1, Find(text, "]") - 1)

\* The body of the loop: one field at most is appended for a paragraph.
ExtractParagraph(found, text) ==
  IF Contains(text, "[") /\ Contains(text, "]") THEN Append(found, Field(text)) ELSE found

InitContract ==
  /\ document \in Documents
  /\ para = 1
  /\ placeholders = <<>>
  /\ extract_pc = "idle"
  /\ calendar = {}
  /\ pc = "idle"
  /\ variant = "LogicFor1_1"
  /\ window = Interval(0, 0)
  /\ duration_minutes = 1
  /\ events = <<>>
  /\ idx = 1
  /\ previous_end = 0
  /\ suggestions = <<>>
  /\ log = <<>>
  /\ MailIdle
  /\ RestIdle

\* document = Document(template_path); placeholders = []
ExtractCall ==
  /\ extract_pc = "idle"
  /\ para' = 1
  /\ placeholders' = <<>>
  /\ extract_pc' = "loop"
  /\ UNCHANGED <<document, scanVars, mailVars, restVars>>

\* for para in document.paragraphs: one iteration.
ExtractStep ==
  /\ extract_pc = "loop"
  /\ para <= Len(document)
  /\ placeholders' = ExtractParagraph(placeholders, document[para])
  /\ para' = para + 1
  /\ UNCHANGED <<document, extract_pc, scanVars, mailVars, restVars>>

\* return placeholders
ExtractReturn ==
  /\ extract_pc = "loop"
  /\ para > Len(document)
  /\ extract_pc' = "returned"
  /\ UNCHANGED <<document, para, placeholders, scanVars, mailVars, restVars>>

NextContract ==
  \/ ExtractCall
  \/ ExtractStep
  \/ ExtractReturn

SpecContract == InitContract /\ [][NextContract]_vars

\* The names between a "[" and the next "]" of a text, in the order of the text.
RECURSIVE Bracketed(_)
Bracketed(text) ==
  IF ~Contains(text, "[") THEN <<>>
  ELSE LET rest == SubSeq(text, Find(text, "[") + 1, Len(text))
       IN IF ~Contains(rest, "]") THEN <<>>
          ELSE <<SubSeq(rest, 1, Find(rest, "]") - 1)>>
                 \o Bracketed(SubSeq(rest, Find(rest, "]") + 1, Len(rest)))

RECURSIVE AllPlaceholders(_)
AllPlaceholders(doc) ==
  IF doc = <<>> THEN <<>> ELSE Bracketed(Head(doc)) \o AllPlaceholders(Tail(doc))

\* C19: extract_placeholders returns every bracketed placeholder of the
\* template, in document order, all of them when a paragraph has several:
\* "... [DATE] ... [DISCLOSING_PARTY_NAME]." gives both names.
C19_EveryPlaceholder ==
  extract_pc = "returned" => placeholders = AllPlaceholders(document)

\* ---------------------------------------------------------------------------
\* DocumentIntelligencePipeline.send_email: five calls on the SMTP server in
\* one try block, whose except returns the message of the exception.
\* ---------------------------------------------------------------------------

Outcomes == {"ok", "raises"}

\* str(e) of the exception each call raises.
Message(call) ==
  CASE call = "SMTP" -> "Connection error"
    [] call = "starttls" -> "STARTTLS failed"
    [] call = "login" -> "Login failed"
    [] call = "sendmail" -> "Send failed"
    [] call = "quit" -> "Quit failed"

\* return "Email sent successfully!"
Success == <<"Email sent successfully!">>

\* return f"Error: {e}"
Failure(call) == <<"Error: ", Message(call)>>

\* The statement after a call of the try block.
After(call) ==
  CASE call = "SMTP" -> "starttls"
    [] call = "starttls" -> "login"
    [] call = "login" -> "sendmail"
    [] call = "sendmail" -> "quit"
    [] call = "quit" -> "return"

InitMail ==
  /\ server \in [SmtpCallSet -> Outcomes]
  /\ mail_pc = "idle"
  /\ result = <<>>
  /\ calendar = {}
  /\ pc = "idle"
  /\ variant = "LogicFor1_1"
  /\ window = Interval(0, 0)
  /\ duration_minutes = 1
  /\ events = <<>>
  /\ idx = 1
  /\ previous_end = 0
  /\ suggestions = <<>>
  /\ log = <<>>
  /\ ContractIdle
  /\ RestIdle

\* send_email(receiver_email, subject, body): the message is built, the try
\* block is entered.
SendEmail ==
  /\ mail_pc = "idle"
  /\ mail_pc' = "SMTP"
  /\ UNCHANGED <<server, result, scanVars, contractVars, restVars>>

\* The call that is next returns.
CallReturns ==
  /\ mail_pc \in SmtpCallSet
  /\ server[mail_pc] = "ok"
  /\ mail_pc' = After(mail_pc)
  /\ UNCHANGED <<server, result, scanVars, contractVars, restVars>>

\* The call that is next raises: `except Exception as e: return f"Error: {e}"`.
CallRaises ==
  /\ mail_pc \in SmtpCallSet
  /\ server[mail_pc] = "raises"
  /\ result' = Failure(mail_pc)
  /\ mail_pc' = "returned"
  /\ UNCHANGED <<server, scanVars, contractVars, restVars>>

\* The last statement of the try block.
ReturnSuccess ==
  /\ mail_pc = "return"
  /\ result' = Success
  /\ mail_pc' = "returned"
  /\ UNCHANGED <<server, scanVars, contractVars, restVars>>

NextMail ==
  \/ SendEmail
  \/ CallReturns
  \/ CallRaises
  \/ ReturnSuccess

SpecMail == InitMail /\ [][NextMail]_vars

\* C20: send_email returns "Email sent successfully!" whenever SMTP(),
\* starttls, login and sendmail all succeeded, even if quit() raises; and it
\* returns "Error: <message>", never the success string, when SMTP(), login
\* or sendmail raises.
C20_QuitFailureIsSuccess ==
  mail_pc = "returned" =>
    /\ (\A call \in SmtpCallSet \ {"quit"} : server[call] = "ok") => result = Success
    /\ (\E call \in {"SMTP", "login", "sendmail"} : server[call] = "raises") =>
         (result # Success /\ result[1] = "Error: ")

\* ---------------------------------------------------------------------------
\* The cursor and the threshold of the scan (Spec).
\* ---------------------------------------------------------------------------

\* C22: during a scan the cursor previous_end starts at the window start and
\* never goes back: it is at least the end of every event already processed.
C22_CursorNeverDecreases ==
  (pc = "scan" /\ duration_minutes > 0 /\ window.start <= window.end) =>
    /\ previous_end >= window.start
    /\ \A i \in 1..(idx - 1) : previous_end >= events[i].end

\* C23: the threshold is inclusive in every copy: a gap before an event, or
\* between the cursor and the window end, is appended as a slot when its
\* length is min_duration or more, and is not appended when it is shorter.
C23_InclusiveThreshold ==
  [][/\ (pc = "scan" /\ idx' = idx + 1) =>
          IF events[idx].start - previous_end >= duration_minutes
          THEN suggestions' = Append(suggestions, Interval(previous_end, events[idx].start))
          ELSE suggestions' = suggestions
     /\ (pc = "scan" /\ pc' = "done") =>
          IF window.end - previous_end >= duration_minutes
          THEN suggestions' = Append(suggestions, Interval(previous_end, window.end))
          ELSE suggestions' = suggestions]_vars

C23_Witness ==
  /\ Returned
  /\ Len(suggestions) = 2
  /\ Len(events) = 1
  /\ \A slot \in Slots : Length(slot) = duration_minutes

\* ---------------------------------------------------------------------------
\* parse_meeting_request, in its three copies: MeetingScheduler (core.py), the
\* function of api.py and MeetingSchedulingAgent (ScheduleMeeting.py).  The
\* request text is taken as what the program reads in it: the date and time
\* search_dates finds, and the number and the unit the duration pattern
\* matches.
\* ---------------------------------------------------------------------------

\* No scan is running, on an empty calendar.
ScanIdle ==
  /\ calendar = {}
  /\ pc = "idle"
  /\ variant = "LogicFor1_1"
  /\ window = Interval(0, 0)
  /\ duration_minutes = 1
  /\ events = <<>>
  /\ idx = 1
  /\ previous_end = 0
  /\ suggestions = <<>>
  /\ log = <<>>

Parsers == {"MeetingScheduler", "api", "ScheduleMeeting"}

\* The units the pattern (hours?|hrs?|minutes?|mins?) accepts, lower case.
HourUnits == {<<"h", "o", "u", "r">>, <<"h", "o", "u", "r", "s">>, <<"h", "r">>, <<"h", "r", "s">>}

MinuteUnits ==
  {<<"m", "i", "n", "u", "t", "e">>, <<"m", "i", "n", "u", "t", "e", "s">>,
   <<"m", "i", "n">>, <<"m", "i", "n", "s">>}

\* The number of the duration phrase is taken in halves (0, 0.5, 1, ...), for
\* which float(value) * 60 is exact.
MaxHalves == 4

\* "for <halves / 2> <unit>", or no duration phrase.
Phrases ==
  {[found |-> FALSE, halves |-> 0, unit |-> <<>>]}
    \cup {[found |-> TRUE, halves |-> h, unit |-> u] : h \in 0..MaxHalves, u \in HourUnits \cup MinuteUnits}

\* The local time of the meeting, in minutes after midnight, 15 * 60 for 3 PM;
\* the offset of the user's timezone from UTC, in minutes.
UserInputs ==
  [dated : BOOLEAN, start : {9 * 60, 15 * 60}, offset : {0, 120}, phrase : Phrases,
   confirmation : {"yes", "no"}]

\* sub in text
IsIn(sub, text) ==
  \E i \in 0..(Len(text) - Len(sub)) : SubSeq(text, i + 1, i + Len(sub)) = sub

\* The test that tells an hour unit from a minute unit: 'hour' in unit in
\* core.py and api.py, ('hour' in unit or 'hr' in unit) in ScheduleMeeting.py.
IsHourUnit(p, unit) ==
  IF p = "ScheduleMeeting"
  THEN IsIn(<<"h", "o", "u", "r">>, unit) \/ IsIn(<<"h", "r">>, unit)
  ELSE IsIn(<<"h", "o", "u", "r">>, unit)

\* duration_minutes of the request: 60 by default, int(value * 60) for an
\* hour unit, int(value) otherwise.
ParsedDuration(p, phrase) ==
  IF ~phrase.found THEN 60
  ELSE IF IsHourUnit(p, phrase.unit) THEN phrase.halves * 30
  ELSE phrase.halves \div 2

\* The whole function: None without a date (and, in ScheduleMeeting, when the
\* user does not confirm), else start and end in UTC.
parse_meeting_request(p, input) ==
  IF ~input.dated THEN NoDetails
  ELSE IF p = "ScheduleMeeting" /\ input.confirmation # "yes" THEN NoDetails
  ELSE LET meeting_start_utc == input.start - input.offset
           minutes == ParsedDuration(p, input.phrase)
       IN [none |-> FALSE, start |-> meeting_start_utc, end |-> meeting_start_utc + minutes]

InitParse ==
  /\ parser \in Parsers
  /\ user_input \in UserInputs
  /\ details = NoDetails
  /\ parse_pc = "idle"
  /\ ScanIdle
  /\ ContractIdle
  /\ MailIdle
  /\ WorkflowIdle
  /\ RouterIdle
  /\ GraphIdle

ParseRequest ==
  /\ parse_pc = "idle"
  /\ details' = parse_meeting_request(parser, user_input)
  /\ parse_pc' = "returned"
  /\ UNCHANGED <<parser, user_input, scanVars, contractVars, mailVars, workflowVars, routerVars, graphVars>>

NextParse == ParseRequest

SpecParse == InitParse /\ [][NextParse]_vars

\* The duration the request asks for: value * 60 minutes for hour, hours, hr
\* and hrs, value minutes for minute, minutes, min and mins, 60 without a
\* duration phrase (whole minutes, rounded down).
RequestedDuration(phrase) ==
  IF ~phrase.found THEN 60
  ELSE IF phrase.unit \in HourUnits THEN phrase.halves * 30
  ELSE phrase.halves \div 2

\* C21: parse_meeting_request returns end = start + D minutes, D the duration
\* the request asks for; "... at 3 PM for 2 hours" in UTC gives 15:00 to 17:00.
C21_EndIsStartPlusDuration ==
  (parse_pc = "returned" /\ ~details.none) =>
    /\ details.start = user_input.start - user_input.offset
    /\ details.end = details.start + RequestedDuration(user_input.phrase)

----------------------------------------------------------------------------
(* The scheduling workflows *)

\* main of LogicFor1.1.py, run of ScheduleMeeting.py, the create_meeting
\* branch of smart_agent, run of testSmartScheduale.py.
Workflows == {"LogicFor1_1.main", "ScheduleMeeting.run", "api.smart_agent", "testSmartScheduale.run"}

\* The workflows that call check_conflicts before the insert.
CheckingWorkflows == {"LogicFor1_1.main", "ScheduleMeeting.run", "api.smart_agent"}

\* The workflows that answer a conflict with suggest_alternative_slots.
SuggestingWorkflows == {"LogicFor1_1.main", "ScheduleMeeting.run"}

\* The day of the request in minutes: T00:00:00 to T23:59:59.
DayWindow == Interval(0, 24 * 60 - 1)

\* Requests of half an hour, one hour and two hours at 9:00 and 10:00.
Meetings ==
  {[none |-> FALSE, start |-> s, end |-> s + d, participants |-> p] :
     s \in {9 * 60, 10 * 60}, d \in {30, 60, 120}, p \in BOOLEAN}

WorkflowEvents == {Interval(9 * 60 + 30, 11 * 60), Interval(10 * 60, 10 * 60 + 30), Interval(12 * 60, 13 * 60)}

WorkflowCalendars == SUBSET WorkflowEvents

ServiceFaults == [list : {"ok", "raises"}, insert : {"ok", "raises"}]

\* except Exception: return True
CheckConflictsFailClosed(outcome, items) ==
  IF outcome = "raises" THEN TRUE ELSE items # <<>>

\* check_conflicts: True if the query returned events, False if it returned
\* none, and False when it raised (except Exception: ... return False).
check_conflicts(outcome, items) ==
  IF outcome = "raises" THEN FALSE ELSE items # <<>>

\* The branch on the conflict dropped.
AfterCheckAlwaysInsert(c) == "insert"

\* if conflict: ... return, else the insert.
AfterCheck(c) == IF c THEN "conflict" ELSE "insert"

\* The branch on the created event dropped.
AfterInsertAlwaysReminders(wf, ok) == "reminders"

\* if event: ... else: return (LogicFor1.1: the insert raises, main prints the
\* error and returns; smart_agent: `if event` is skipped).
AfterInsert(wf, ok) == IF ok THEN "reminders" ELSE "failed"

\* The answer built without the event.
SmartAgentReturnNoLink(ok) == "Meeting scheduled successfully."

\* return SmartAgentResponse(message="Meeting scheduled successfully.",
\* data={"event_link": event.get("htmlLink"), ...}): with event = None,
\* event.get raises AttributeError and `except Exception` answers HTTP 500.
SmartAgentReturn(ok) ==
  IF ok THEN "Meeting scheduled successfully." ELSE "HTTP 500"

\* meeting_details.get("participants"): the dict of api.py has no such key.
HasParticipants(wf, parsed) ==
  IF wf = "api.smart_agent" THEN FALSE ELSE parsed.participants

\* The duration the suggestion is asked for: run passes
\* meeting_details.get("duration", 60) and the dict of its
\* parse_meeting_request has no "duration" key; main passes no duration and
\* the parameter defaults to 60.
SuggestionDuration(wf, parsed) == 60

\* The window the suggestion is asked for: the day of the request in run, the
\* requested interval itself in main.
SuggestionWindow(wf, parsed) ==
  IF wf = "ScheduleMeeting.run" THEN DayWindow ELSE Interval(parsed.start, parsed.end)

\* The copy of the scan the workflow calls.
SuggestionVariant(wf) ==
  IF wf = "ScheduleMeeting.run" THEN "ScheduleMeeting" ELSE "LogicFor1_1"

\* No scan of the first specification is running; the calendar and the
\* suggestions belong to the workflow.
ScanNotCalled ==
  /\ pc = "idle"
  /\ variant = "LogicFor1_1"
  /\ window = Interval(0, 0)
  /\ duration_minutes = 1
  /\ events = <<>>
  /\ idx = 1
  /\ previous_end = 0
  /\ log = <<>>

scanLocals == <<pc, variant, window, duration_minutes, events, idx, previous_end, log>>

notWorkflow == <<scanLocals, contractVars, mailVars, parseVars, routerVars, graphVars>>

InitWorkflow ==
  /\ workflow \in Workflows
  /\ calendar \in WorkflowCalendars
  /\ meeting_details \in Meetings \cup {NoMeeting}
  /\ faults \in ServiceFaults
  /\ run_pc = "parse"
  /\ conflict = FALSE
  /\ created = FALSE
  /\ ops = <<>>
  /\ response = ""
  /\ suggestions = <<>>
  /\ ScanNotCalled
  /\ ContractIdle
  /\ MailIdle
  /\ ParseIdle
  /\ RouterIdle
  /\ GraphIdle

\* meeting_details = parse_meeting_request(user_input); if not
\* meeting_details: return.
RunParse ==
  /\ run_pc = "parse"
  /\ IF meeting_details.none
     THEN /\ run_pc' = "ended"
          /\ response' = "Could not parse meeting details."
     ELSE /\ run_pc' = IF workflow \in CheckingWorkflows THEN "check" ELSE "insert"
          /\ response' = response
  /\ UNCHANGED <<workflow, meeting_details, faults, conflict, created, ops>>
  /\ UNCHANGED <<calendar, suggestions, notWorkflow>>

\* conflict = check_conflicts(start, end)
CheckConflicts ==
  /\ run_pc = "check"
  /\ \E items \in (IF faults.list = "ok"
                   THEN ListEvents(calendar, meeting_details.start, meeting_details.end)
                   ELSE {<<>>}) :
       /\ conflict' = check_conflicts(faults.list, items)
       /\ run_pc' = AfterCheck(check_conflicts(faults.list, items))
  /\ ops' = Append(ops, "list")
  /\ UNCHANGED <<workflow, meeting_details, faults, created, response>>
  /\ UNCHANGED <<calendar, suggestions, notWorkflow>>

\* if conflict: suggest_alternative_slots(...); return
SuggestAlternatives ==
  /\ run_pc = "conflict"
  /\ workflow \in SuggestingWorkflows
  /\ LET w == SuggestionWindow(workflow, meeting_details)
     IN \E evs \in ListEvents(calendar, w.start, w.end) :
          suggestions' = suggest_alternative_slots(SuggestionVariant(workflow), w.start, w.end, evs,
                                                   SuggestionDuration(workflow, meeting_details))
  /\ ops' = Append(ops, "list")
  /\ response' = "Conflict detected! Suggesting alternative time slots..."
  /\ run_pc' = "ended"
  /\ UNCHANGED <<workflow, meeting_details, faults, conflict, created>>
  /\ UNCHANGED <<calendar, notWorkflow>>

\* if conflict: return SmartAgentResponse(message="Conflict detected.", data=parsed)
ConflictResponse ==
  /\ run_pc = "conflict"
  /\ workflow \notin SuggestingWorkflows
  /\ response' = "Conflict detected."
  /\ run_pc' = "ended"
  /\ UNCHANGED <<workflow, meeting_details, faults, conflict, created, ops>>
  /\ UNCHANGED <<calendar, suggestions, notWorkflow>>

\* event, meet_link = add_event_to_calendar(meeting_details): the event is in
\* the calendar when the insert succeeds, no event is returned when it raises.
AddEvent ==
  /\ run_pc = "insert"
  /\ ops' = Append(ops, "add_event_to_calendar")
  /\ created' = (faults.insert = "ok")
  /\ calendar' = IF faults.insert = "ok"
                 THEN calendar \cup {Interval(meeting_details.start, meeting_details.end)}
                 ELSE calendar
  /\ run_pc' = AfterInsert(workflow, faults.insert = "ok")
  /\ UNCHANGED <<workflow, meeting_details, faults, conflict, response>>
  /\ UNCHANGED <<suggestions, notWorkflow>>

\* The run after an insert that returned no event.
InsertFailed ==
  /\ run_pc = "failed"
  /\ response' = IF workflow = "api.smart_agent" THEN SmartAgentReturn(created)
                 ELSE "Failed to create event."
  /\ run_pc' = "ended"
  /\ UNCHANGED <<workflow, meeting_details, faults, conflict, created, ops>>
  /\ UNCHANGED <<calendar, suggestions, notWorkflow>>

\* configure_reminders(event.get("id"))
ConfigureReminders ==
  /\ run_pc = "reminders"
  /\ ops' = Append(ops, "configure_reminders")
  /\ run_pc' = IF HasParticipants(workflow, meeting_details) THEN "invite" ELSE "finish"
  /\ UNCHANGED <<workflow, meeting_details, faults, conflict, created, response>>
  /\ UNCHANGED <<calendar, suggestions, notWorkflow>>

\* if meeting_details.get("participants"): invite_participants(...)
InviteParticipants ==
  /\ run_pc = "invite"
  /\ ops' = Append(ops, "invite_participants")
  /\ run_pc' = "finish"
  /\ UNCHANGED <<workflow, meeting_details, faults, conflict, created, response>>
  /\ UNCHANGED <<calendar, suggestions, notWorkflow>>

\* The last statement of the run.
Finish ==
  /\ run_pc = "finish"
  /\ response' = IF workflow = "api.smart_agent" THEN SmartAgentReturn(created)
                 ELSE "All tasks completed successfully!"
  /\ run_pc' = "ended"
  /\ UNCHANGED <<workflow, meeting_details, faults, conflict, created, ops>>
  /\ UNCHANGED <<calendar, suggestions, notWorkflow>>

NextWorkflow ==
  \/ RunParse
  \/ CheckConflicts
  \/ SuggestAlternatives
  \/ ConflictResponse
  \/ AddEvent
  \/ InsertFailed
  \/ ConfigureReminders
  \/ InviteParticipants
  \/ Finish

SpecWorkflow == InitWorkflow /\ [][NextWorkflow]_vars

Ops == {ops[i] : i \in 1..Len(ops)}

\* C24: after a conflict, every slot that run (and main) suggests is at least
\* as long as the requested meeting, end - start of the parsed request.
C24_SuggestionsFitRequest ==
  (run_pc = "ended" /\ conflict /\ workflow \in SuggestingWorkflows) =>
    \A slot \in Slots : Length(slot) >= meeting_details.end - meeting_details.start

\* C25: in the workflows that check conflicts, a run in which check_conflicts
\* returned True ends after reporting the conflict: add_event_to_calendar is
\* not called and no event is created.
C25_NoInsertAfterConflict ==
  (workflow \in CheckingWorkflows /\ conflict) =>
    /\ run_pc \in {"conflict", "ended"}
    /\ "add_event_to_calendar" \notin Ops
    /\ ~created
    /\ Interval(meeting_details.start, meeting_details.end) \notin calendar \ WorkflowEvents

C25_Witness ==
  /\ run_pc = "ended"
  /\ conflict
  /\ workflow = "ScheduleMeeting.run"
  /\ suggestions # <<>>
  /\ faults.insert = "ok"

\* C26: check_conflicts fails open: when its query raises it returns False,
\* the workflow takes the interval for free and goes on to the insert.
C26_FailsOpen ==
  (workflow \in CheckingWorkflows /\ faults.list = "raises" /\ ~meeting_details.none) =>
    /\ ~conflict
    /\ run_pc # "conflict"
    /\ run_pc = "ended" => "add_event_to_calendar" \in Ops
    /\ (run_pc = "ended" /\ faults.insert = "ok") =>
         /\ created
         /\ Interval(meeting_details.start, meeting_details.end) \in calendar

\* An event inserted over a busy interval, the calendar never read.
C26_Witness ==
  /\ run_pc = "ended"
  /\ workflow \in CheckingWorkflows
  /\ faults.list = "raises"
  /\ created
  /\ \E ev \in calendar \cap WorkflowEvents :
       Intersects(ev, Interval(meeting_details.start, meeting_details.end))

\* The calendar operations of the run after the queries.
Writes == SelectSeq(ops, LAMBDA op : op # "list")

\* C27: the calendar operations of a run are insert, then reminders, then
\* invitations; reminders and invitations only after the insert returned an
\* event, invitations only for a non-empty participant list; after a failed
\* insert neither is called.
C27_InsertRemindersInvite ==
  /\ Writes \in {<<>>,
                 <<"add_event_to_calendar">>,
                 <<"add_event_to_calendar", "configure_reminders">>,
                 <<"add_event_to_calendar", "configure_reminders", "invite_participants">>}
  /\ "configure_reminders" \in Ops => created
  /\ "invite_participants" \in Ops => created /\ meeting_details.participants
  /\ faults.insert = "raises" =>
       /\ "configure_reminders" \notin Ops
       /\ "invite_participants" \notin Ops
       /\ run_pc \notin {"reminders", "invite", "finish"}
  /\ (run_pc = "ended" /\ created) =>
       /\ "configure_reminders" \in Ops
       /\ "invite_participants" \in Ops <=> HasParticipants(workflow, meeting_details)

C27_Witness ==
  /\ run_pc = "ended"
  /\ Writes = <<"add_event_to_calendar", "configure_reminders", "invite_participants">>

\* C28: smart_agent answers 'Meeting scheduled successfully.' only when the
\* event was created; a failed insert ends in HTTP 500, a conflict in
\* 'Conflict detected.'.
C28_SuccessOnlyWhenCreated ==
  (workflow = "api.smart_agent" /\ run_pc = "ended") =>
    /\ response = "Meeting scheduled successfully." => created
    /\ ("add_event_to_calendar" \in Ops /\ ~created) => response = "HTTP 500"
    /\ conflict => response = "Conflict detected."
    /\ created => response = "Meeting scheduled successfully."

C28_Witness ==
  /\ workflow = "api.smart_agent"
  /\ run_pc = "ended"
  /\ "add_event_to_calendar" \in Ops
  /\ ~created
  /\ response = "HTTP 500"

----------------------------------------------------------------------------
(* The intent router of testGraph.py *)

\* The keywords intent_classifier looks for, in the order of its tests, and
\* the node each one selects.
Keywords ==
  <<<<"c", "o", "n", "t", "r", "a", "c", "t">>,
    <<"m", "e", "e", "t", "i", "n", "g">>,
    <<"t", "a", "s", "k">>,
    <<"d", "o", "c", "u", "m", "e", "n", "t">>,
    <<"g", "r", "e", "e", "t", "i", "n", "g">>>>

KeywordNodes == <<"contract_agent", "meeting_agent", "task_agent", "document_agent", "greeting_handler">>

Handlers == {KeywordNodes[i] : i \in 1..Len(KeywordNodes)} \cup {"unknown_handler"}

Unknown == <<"u", "n", "k", "n", "o", "w", "n">>

Help == <<"h", "e", "l", "p">>

\* What the model answers, stripped and in lower case: one of the six words
\* of the prompt or another word, two of them separated by a space, or nothing.
ClassificationWords == {Keywords[i] : i \in 1..Len(Keywords)} \cup {Unknown, Help}

Classifications ==
  {<<>>} \cup ClassificationWords
    \cup {a \o <<" ">> \o b : a, b \in ClassificationWords}

\* The tests of intent_classifier with "meeting" tried before "contract".
RouteMeetingFirst(text) ==
  IF IsIn(Keywords[2], text) THEN "meeting_agent"
  ELSE IF IsIn(Keywords[1], text) THEN "contract_agent"
  ELSE IF IsIn(Keywords[3], text) THEN "task_agent"
  ELSE IF IsIn(Keywords[4], text) THEN "document_agent"
  ELSE IF IsIn(Keywords[5], text) THEN "greeting_handler"
  ELSE "unknown_handler"

\* state["next"] after intent_classifier: the if/elif chain over
\* `"<keyword>" in classification`.
Route(text) ==
  IF IsIn(Keywords[1], text) THEN "contract_agent"
  ELSE IF IsIn(Keywords[2], text) THEN "meeting_agent"
  ELSE IF IsIn(Keywords[3], text) THEN "task_agent"
  ELSE IF IsIn(Keywords[4], text) THEN "document_agent"
  ELSE IF IsIn(Keywords[5], text) THEN "greeting_handler"
  ELSE "unknown_handler"

\* add_conditional_edges("intent_classifier", lambda x: x["next"], {...}):
\* every value of next is mapped to the node of the same name.
ConditionalEdge(next) == next

notRouter == <<scanVars, contractVars, mailVars, parseVars, workflowVars, graphVars>>

InitRouter ==
  /\ classification \in Classifications
  /\ router_pc = "intent_classifier"
  /\ visited = <<>>
  /\ ScanIdle
  /\ ContractIdle
  /\ MailIdle
  /\ ParseIdle
  /\ WorkflowIdle
  /\ GraphIdle

\* The entry point, then the conditional edge.
IntentClassifier ==
  /\ router_pc = "intent_classifier"
  /\ visited' = Append(visited, "intent_classifier")
  /\ router_pc' = ConditionalEdge(Route(classification))
  /\ UNCHANGED <<classification, notRouter>>

\* A handler node, then its edge to END.
RunHandler ==
  /\ router_pc \in Handlers
  /\ visited' = Append(visited, router_pc)
  /\ router_pc' = "END"
  /\ UNCHANGED <<classification, notRouter>>

NextRouter ==
  \/ IntentClassifier
  \/ RunHandler

SpecRouter == InitRouter /\ [][NextRouter]_vars

\* The node of the first keyword, in the order contract, meeting, task,
\* document, greeting, that occurs in the text; unknown_handler without one.
FirstKeyword(text) ==
  LET found == {i \in 1..Len(Keywords) : IsIn(Keywords[i], text)}
  IN IF found = {} THEN "unknown_handler"
     ELSE KeywordNodes[CHOOSE i \in found : \A j \in found : i <= j]

----------------------------------------------------------------------------
(* The agent/tools graph of main_graph.py *)

Graphs == {"FullGraph", "SmartGraph"}

\* The intents of the prompt, as the characters call_model searches for.
IntentText ==
  [schedule_meeting |->
     <<"s", "c", "h", "e", "d", "u", "l", "e", "_", "m", "e", "e", "t", "i", "n", "g">>,
   create_contract |->
     <<"c", "r", "e", "a", "t", "e", "_", "c", "o", "n", "t", "r", "a", "c", "t">>,
   document_organizer |->
     <<"d", "o", "c", "u", "m", "e", "n", "t", "_", "o", "r", "g", "a", "n", "i", "z", "e", "r">>,
   task_agent |->
     <<"t", "a", "s", "k", "_", "a", "g", "e", "n", "t">>,
   general_query |->
     <<"g", "e", "n", "e", "r", "a", "l", "_", "q", "u", "e", "r", "y">>]

\* The tools call_model can trigger, in the order of its tests: four in
\* FullGraph, two in SmartGraph.
ToolOrder(g) ==
  IF g = "FullGraph"
  THEN <<"schedule_meeting", "create_contract", "document_organizer", "task_agent">>
  ELSE <<"schedule_meeting", "create_contract">>

\* What the classifier answers, stripped and in lower case: one intent, two
\* intents separated by a space, or nothing.
IntentResponses ==
  LET words == {IntentText[k] : k \in DOMAIN IntentText}
  IN {<<>>} \cup words \cup {a \o <<" ">> \o b : a, b \in words}

\* How many nodes a run executes at most.
MaxSupersteps == 5

\* call_model: AIMessage(content="", tool_calls=[{"name": tool, ...}]) for
\* the first tool whose name occurs in intent_response, else
\* AIMessage(content=response.text).
call_model(g, text) ==
  LET found == {i \in 1..Len(ToolOrder(g)) : IsIn(IntentText[ToolOrder(g)[i]], text)}
  IN IF found = {} THEN [kind |-> "ai", tool_call |-> NoToolCall]
     ELSE [kind |-> "ai", tool_call |-> ToolOrder(g)[CHOOSE i \in found : \A j \in found : i <= j]]

\* should_continue: "continue" if the last message has tool calls, else "end".
should_continue(message) ==
  IF message.tool_call # NoToolCall THEN "continue" ELSE "end"

\* add_conditional_edges("agent", should_continue, {"continue": "tools", "end": END})
AgentEdge(answer) == IF answer = "continue" THEN "tools" ELSE "END"

notGraph == <<scanVars, contractVars, mailVars, parseVars, workflowVars, routerVars>>

InitGraph ==
  /\ graph \in Graphs
  /\ node = "agent"
  /\ last_message = [kind |-> "human", tool_call |-> NoToolCall]
  /\ intent_response = <<>>
  /\ tool_runs = 0
  /\ supersteps = 0
  /\ ScanIdle
  /\ ContractIdle
  /\ MailIdle
  /\ ParseIdle
  /\ WorkflowIdle
  /\ RouterIdle

\* The agent node and its conditional edge: the content of the last message,
\* the user's text or the output of a tool, is classified and the answer of
\* the classifier decides.
CallModel ==
  /\ node = "agent"
  /\ supersteps < MaxSupersteps
  /\ \E text \in IntentResponses :
       /\ intent_response' = text
       /\ last_message' = call_model(graph, text)
       /\ node' = AgentEdge(should_continue(call_model(graph, text)))
  /\ supersteps' = supersteps + 1
  /\ UNCHANGED <<graph, tool_runs, notGraph>>

\* The tools node and its edge back to the agent: the tool of the call runs
\* and its output is the message the agent receives.
RunTools ==
  /\ node = "tools"
  /\ supersteps < MaxSupersteps
  /\ tool_runs' = tool_runs + 1
  /\ last_message' = [kind |-> "tool", tool_call |-> NoToolCall]
  /\ node' = "agent"
  /\ supersteps' = supersteps + 1
  /\ UNCHANGED <<graph, intent_response, notGraph>>

NextGraph ==
  \/ CallModel
  \/ RunTools

SpecGraph == InitGraph /\ [][NextGraph]_vars

\* The tools node is about to run only on an agent message with a tool call.
ToolsOnlyAfterToolCall ==
  node = "tools" => /\ last_message.kind = "ai"
                    /\ last_message.tool_call # NoToolCall

\* C30: the tools node runs only directly after an agent step whose last
\* message carries a tool call, and a run invokes a tool at most once before
\* it reaches END, whatever the classifier answers.
C30_AtMostOneToolRun ==
  /\ ToolsOnlyAfterToolCall
  /\ tool_runs <= 1

====
